---- MODULE Spec2Model ----
(***************************************************************************)
(* The streaming tool-calling loop of server.py (chat_stream / event_gen)  *)
(* together with the tool collaborators of tools.py it dispatches to.      *)
(*                                                                         *)
(* An upstream response body is a sequence of bytes.  A byte is "nl" (the  *)
(* line terminator), "sp" (white space), "lb" (the opening of a JSON       *)
(* object) or the identifier of a record body.  A line parses as JSON      *)
(* exactly when, stripped, it is "lb" followed by one record identifier.   *)
(***************************************************************************)
EXTENDS Integers, Sequences, FiniteSets, TLC

\* Bound of the model: the number of lines the upstream sends in one client
\* stream, over all of its responses.
MaxLines == 3

\* Characters of the user message that seeds the conversation.
UserChars == 16000

DEFAULT_NUM_CTX == 8192
USER_MAX_CTX == 40000
DeveloperPromptChars == 2776

None == -1

----------------------------------------------------------------------------
(* Text values.  A text is its label and the number of characters it has.  *)

Str(s) == [text |-> s, chars |-> Len(s)]

----------------------------------------------------------------------------
(* Tool calls sent by the model.  An entry of a tool_calls list is an       *)
(* object with an id and a function object (wf = "ok"), something that is   *)
(* not an object (wf = "notobj"), or an object whose function field is not  *)
(* an object (wf = "fnnotobj").  The arguments are an object (form "obj"),  *)
(* a string holding a JSON object (form "str") or a string that is not     *)
(* JSON (form "badstr").                                                    *)

Call(id, name, form, fields) ==
    [wf |-> "ok", id |-> id, name |-> name, form |-> form, fields |-> fields]

NoFields == [x \in {} |-> ""]

Batches ==
    << \* 1: the note store, arguments as an object and as a JSON string
       << Call("c1", "notes_write", "obj", [key |-> "k", content |-> "v"]),
          Call("c2", "notes_read", "str", [key |-> "k"]),
          Call("c3", "notes_write", "obj", NoFields) >>,
       \* 2: tool-level failures and a collaborator that may raise
       << Call("c4", "web_search", "badstr", NoFields),
          Call("c5", "open_url", "obj", NoFields),
          Call("c6", "bogus", "obj", NoFields),
          Call("c7", "open_url", "obj", [url |-> "u"]) >>,
       \* 3: an entry that is not an object, after a well-formed one
       << Call("c8", "terminal_open", "obj", NoFields),
          [wf |-> "notobj", id |-> "", name |-> "", form |-> "obj", fields |-> NoFields] >>,
       \* 4: an entry whose function field is not an object
       << [wf |-> "fnnotobj", id |-> "c9", name |-> "", form |-> "obj", fields |-> NoFields] >>,
       \* 5: the empty list
       << >> >>

BatchIds == {"T1", "T2", "T3", "T4", "T5"}

BatchOf(rid) ==
    CASE rid = "T1" -> Batches[1]
      [] rid = "T2" -> Batches[2]
      [] rid = "T3" -> Batches[3]
      [] rid = "T4" -> Batches[4]
      [] rid = "T5" -> Batches[5]

----------------------------------------------------------------------------
(* Upstream records.                                                        *)

NoMetrics ==
    [prompt_eval_count |-> None, eval_count |-> None,
     total_duration |-> None, eval_duration |-> None]

Record(hasContent, content, hasToolCalls, tcs, done, metrics) ==
    [bound |-> TRUE, hasContent |-> hasContent, content |-> content,
     hasToolCalls |-> hasToolCalls, tool_calls |-> tcs,
     done |-> done, metrics |-> metrics]

\* The value of the local variable data before its first assignment.
Unbound ==
    [bound |-> FALSE, hasContent |-> FALSE, content |-> "",
     hasToolCalls |-> FALSE, tool_calls |-> << >>,
     done |-> FALSE, metrics |-> NoMetrics]

RecordIds == {"C", "CD", "D"} \cup BatchIds

RecordOf(rid) ==
    CASE rid = "C"  -> Record(TRUE, "a", FALSE, << >>, FALSE, NoMetrics)
      [] rid = "CD" -> Record(TRUE, "b", FALSE, << >>, TRUE,
                              [prompt_eval_count |-> 3, eval_count |-> 2,
                               total_duration |-> 5000000, eval_duration |-> None])
      [] rid = "D"  -> Record(FALSE, "", FALSE, << >>, TRUE,
                              [prompt_eval_count |-> None, eval_count |-> 7,
                               total_duration |-> 0, eval_duration |-> 3999999])
      [] rid \in BatchIds -> Record(FALSE, "", TRUE, BatchOf(rid), FALSE, NoMetrics)

\* The lines the upstream sends: a record, white space only, a truncated object.
Encode(rid) == <<"lb", rid>>
LineSet == {Encode(rid) : rid \in RecordIds} \cup {<<"sp">>, <<"lb">>}

----------------------------------------------------------------------------
(* The line decoder.                                                        *)

HasNl(buf) == \E i \in 1..Len(buf) : buf[i] = "nl"

FirstNl(buf) == CHOOSE i \in 1..Len(buf) :
                    buf[i] = "nl" /\ \A j \in 1..(i-1) : buf[j] # "nl"

RECURSIVE LStrip(_)
LStrip(s) == IF s # << >> /\ Head(s) = "sp" THEN LStrip(Tail(s)) ELSE s

RECURSIVE RStrip(_)
RStrip(s) == IF s # << >> /\ s[Len(s)] = "sp"
             THEN RStrip(SubSeq(s, 1, Len(s) - 1)) ELSE s

Strip(s) == RStrip(LStrip(s))

\* orjson.loads of a line
Loads(line) ==
    IF Len(line) = 2 /\ line[1] = "lb" /\ line[2] \in RecordIds
    THEN [ok |-> TRUE, value |-> RecordOf(line[2])]
    ELSE [ok |-> FALSE, value |-> Unbound]

----------------------------------------------------------------------------
(* Outbound events.                                                         *)

Delta(text) == [type |-> "delta", delta |-> text]
ToolCalls(tcs) == [type |-> "tool_calls", tool_calls |-> tcs]
ToolResult(id, name, args, output) ==
    [type |-> "tool_result", id |-> id, name |-> name, args |-> args, output |-> output]
Done(opts, usage) == [type |-> "done", options |-> opts, usage |-> usage]
Error(prefix, detail) == [type |-> "error", prefix |-> prefix, detail |-> detail]
Close == [type |-> "close"]

NoPayload == [type |-> "none"]

BackendFailed == "Backend request failed: "
Unexpected == "Unexpected error: "

----------------------------------------------------------------------------
(* Sampling options.                                                        *)

Max(a, b) == IF a >= b THEN a ELSE b
Min(a, b) == IF a <= b THEN a ELSE b

\* A clamp with max and min exchanged.
clampExchanged(v, lo, hi) == Min(lo, Max(hi, v))

clamp(v, lo, hi) == Max(lo, Min(hi, v))

\* ceil(len(text) / 4) if text else 0, on the number of characters
estimate_tokens(chars) == IF chars = 0 THEN 0 ELSE (chars + 3) \div 4

\* len(f"{role}: {content}\n"), role and content defaulting to ""
MsgChars(m) ==
    Len(m.role) + 2 + (IF "content" \in DOMAIN m THEN m.content.chars ELSE 0) + 1

RECURSIVE JoinedChars(_)
JoinedChars(msgs) ==
    IF msgs = << >> THEN 0 ELSE MsgChars(Head(msgs)) + JoinedChars(Tail(msgs))

\* The settings of a request: temperature as the client wrote it, the
\* dynamic_ctx flag, max_ctx and num_ctx.
ValidFloats == {"0.9", "0.2"}

DefaultSettings ==
    [temperature |-> "0.9", dynamic_ctx |-> TRUE,
     max_ctx |-> USER_MAX_CTX, num_ctx |-> DEFAULT_NUM_CTX]

SettingsSet ==
    { DefaultSettings,
      [DefaultSettings EXCEPT !.temperature = "hot"] }

\* Options that size the context from the conversation whatever dynamic_ctx says.
build_optionsAlwaysDynamic(st, msgs) ==
    IF st.temperature \notin ValidFloats
    THEN [raised |-> TRUE, value |-> NoPayload]
    ELSE [raised |-> FALSE,
          value |-> [temperature |-> st.temperature, top_p |-> "0.9", top_k |-> 100,
                     num_ctx |-> clamp((estimate_tokens(JoinedChars(msgs)) * 6) \div 5,
                                       4096, st.max_ctx)]]

\* build_options: raises when float() cannot convert the temperature.
build_options(st, msgs) ==
    IF st.temperature \notin ValidFloats
    THEN [raised |-> TRUE, value |-> NoPayload]
    ELSE LET est_tokens == estimate_tokens(JoinedChars(msgs))
             num_ctx == IF st.dynamic_ctx
                        THEN clamp((est_tokens * 6) \div 5, 4096, st.max_ctx)
                        ELSE clamp(st.num_ctx, 2048, st.max_ctx)
         IN  [raised |-> FALSE,
              value |-> [temperature |-> st.temperature, top_p |-> "0.9",
                         top_k |-> 100, num_ctx |-> num_ctx]]

\* The usage record of a Done event.
DurationMs(ns) == IF ns # None /\ ns # 0 THEN ns \div 1000000 ELSE None

Usage(metrics) ==
    [prompt_eval_count |-> metrics.prompt_eval_count,
     eval_count |-> metrics.eval_count,
     total_duration_ms |-> DurationMs(metrics.total_duration),
     eval_duration_ms |-> DurationMs(metrics.eval_duration)]

----------------------------------------------------------------------------
(* One pass of the inner loop "while b'\n' in buffer" and the done check    *)
(* that follows the inner loop, as functions of the locals they read.       *)

\* A decoder that holds back the content of the completing record.
DeltaEventsSkipFinal(rec) ==
    IF rec.hasContent /\ ~rec.done THEN << Delta(rec.content) >> ELSE << >>

DeltaEvents(rec) == IF rec.hasContent THEN << Delta(rec.content) >> ELSE << >>

ToolCallsEvents(rec) == IF rec.hasToolCalls THEN << ToolCalls(rec.tool_calls) >> ELSE << >>

\* Precondition: HasNl(buf).  brk: the pass ended with the break of line 439.
LineStep(buf, dat) ==
    LET k == FirstNl(buf)
        line == Strip(SubSeq(buf, 1, k - 1))
        rest == SubSeq(buf, k + 1, Len(buf))
        parsed == Loads(line)
        skip == [buffer |-> rest, data |-> dat, out |-> << >>, decoded |-> FALSE,
                 setTC |-> FALSE, tool_calls |-> << >>, brk |-> FALSE]
    IN  IF line = << >> THEN skip
        ELSE IF ~parsed.ok THEN skip
        ELSE [buffer |-> rest, data |-> parsed.value,
              out |-> DeltaEvents(parsed.value) \o ToolCallsEvents(parsed.value),
              decoded |-> TRUE,
              setTC |-> parsed.value.hasToolCalls,
              tool_calls |-> parsed.value.tool_calls,
              brk |-> parsed.value.hasToolCalls]

\* A done check that never sees the done flag.
DoneStepIgnoresDone(dat, opts) ==
    [raised |-> ~dat.bound, done |-> FALSE, payload |-> NoPayload]

\* if data.get("done"): ... done_payload = ...; break
DoneStep(dat, opts) ==
    IF ~dat.bound
    THEN [raised |-> TRUE, done |-> FALSE, payload |-> NoPayload]
    ELSE IF dat.done
    THEN [raised |-> FALSE, done |-> TRUE, payload |-> Done(opts, Usage(dat.metrics))]
    ELSE [raised |-> FALSE, done |-> FALSE, payload |-> NoPayload]

----------------------------------------------------------------------------
(* The tool collaborators of tools.py.  g is the record of the module-level *)
(* state they share: NOTES, USER_PREFS, TERMINAL_OPEN, SEARCH_CACHE and     *)
(* URL_CACHE.  A collaborator gives the set of its possible outcomes, each  *)
(* the returned payload (or the exception raised) and the state it leaves.  *)

EmptyDict == [x \in {} |-> ""]

Put(d, k, v) == [x \in DOMAIN d \cup {k} |-> IF x = k THEN v ELSE d[x]]

Get(args, key, default) == IF key \in DOMAIN args THEN args[key] ELSE default

Returns(payload, g) == [raised |-> FALSE, exc |-> "", payload |-> payload, g |-> g]
Raises(exc, g) == [raised |-> TRUE, exc |-> exc, payload |-> NoPayload, g |-> g]

Ok == [ok |-> TRUE]
Err(msg) == [error |-> msg]
ProcResult == [stdout |-> "out", stderr |-> "", returncode |-> 0]

SearchResults == {"r1", "r2"}

\* web_search up to its await: a hit returns the cached payload
SearchKey(query, k) == <<query, k>>
web_search_cached(query, k, g) == SearchKey(query, k) \in DOMAIN g.SEARCH_CACHE
web_search_hit(query, k, g) == { Returns(g.SEARCH_CACHE[SearchKey(query, k)], g) }

\* web_search after its await: _ddg_search_html gave an error dict or results
web_search_resume(query, k, g) ==
    { Returns(Err("web search failed: ConnectError"), g) } \cup
    { LET c == Put(g.SEARCH_CACHE, SearchKey(query, k),
                   [results |-> r, source |-> "duckduckgo_html"])
      IN  Returns(c[SearchKey(query, k)], [g EXCEPT !.SEARCH_CACHE = c])
      : r \in SearchResults }

UrlKey(url, max_chars) == <<url, max_chars>>
open_url_cached(url, max_chars, g) == UrlKey(url, max_chars) \in DOMAIN g.URL_CACHE
open_url_hit(url, max_chars, g) == { Returns(g.URL_CACHE[UrlKey(url, max_chars)], g) }

\* open_url after its await: _open_and_extract raised or gave the page
open_url_resume(url, max_chars, g) ==
    { Raises("HTTPStatusError: 404", g) } \cup
    { LET c == Put(g.URL_CACHE, UrlKey(url, max_chars),
                   [page |-> [title |-> "t", url |-> url, text |-> "text"]])
      IN  Returns(c[UrlKey(url, max_chars)], [g EXCEPT !.URL_CACHE = c]) }

eval_expr(expr, g) ==
    { Returns(Err("invalid syntax"), g) } \cup
    (IF expr = "" THEN {} ELSE { Returns([result |-> "repr"], g) })

execute(code, g) == { Returns(ProcResult, g), Returns(Err("TimeoutExpired"), g) }

read_file(path, g) ==
    { Returns(Err("No such file or directory"), g) } \cup
    (IF path = "" THEN {} ELSE { Returns([content |-> "file"], g) })

write_file(path, contents, g) ==
    { Returns(Err("No such file or directory"), g) } \cup
    (IF path = "" THEN {} ELSE { Returns(Ok, g) })

terminal_open(g) == { Returns(Ok, [g EXCEPT !.TERMINAL_OPEN = TRUE]) }

\* A terminal_run that does not look at the flag.
terminal_runUnguarded(cmd, g) ==
    { Returns(ProcResult, g), Returns(Err("TimeoutExpired"), g) }

terminal_run(cmd, g) ==
    IF ~g.TERMINAL_OPEN
    THEN { Returns(Err("terminal not open"), g) }
    ELSE { Returns(ProcResult, g), Returns(Err("TimeoutExpired"), g) }

terminal_terminate(g) == { Returns(Ok, [g EXCEPT !.TERMINAL_OPEN = FALSE]) }

\* A store that keeps the first content written to a key.
notes_writeOnce(key, content, g) ==
    { Returns(Ok, [g EXCEPT !.NOTES = IF key \in DOMAIN g.NOTES THEN g.NOTES
                                      ELSE Put(g.NOTES, key, content)]) }

notes_write(key, content, g) ==
    { Returns(Ok, [g EXCEPT !.NOTES = Put(g.NOTES, key, content)]) }

notes_list(g) == { Returns([keys |-> DOMAIN g.NOTES], g) }

notes_read(key, g) ==
    IF key \in DOMAIN g.NOTES
    THEN { Returns([content |-> g.NOTES[key]], g) }
    ELSE { Returns(Err("not found"), g) }

user_prefs_write(key, content, g) ==
    { Returns(Ok, [g EXCEPT !.USER_PREFS = Put(g.USER_PREFS, key, content)]) }

user_prefs_list(g) == { Returns([keys |-> DOMAIN g.USER_PREFS], g) }

user_prefs_read(key, g) ==
    IF key \in DOMAIN g.USER_PREFS
    THEN { Returns([content |-> g.USER_PREFS[key]], g) }
    ELSE { Returns(Err("not found"), g) }

----------------------------------------------------------------------------
(* The dispatch of one tool call (server.py, the body of "for tc in        *)
(* tool_calls").                                                            *)

\* tc.get(...) on an entry that is not an object, or .get(...) on a function
\* field that is not an object, raises outside every try.
Malformed(tc) == tc.wf # "ok"

\* args at the yield: {} when orjson.loads(args_raw) raised
ArgsOf(tc) == IF tc.form = "badstr" THEN NoFields ELSE tc.fields

\* A dispatch that gives every error payload the prefix of the web_search branch.
FromOutcomePrefixed(o) ==
    IF o.raised THEN Err(o.exc)
    ELSE IF "error" \in DOMAIN o.payload THEN Err("Search failed: " \o o.payload.error)
    ELSE o.payload

\* except Exception as e: payload = {"error": f"{type(e).__name__}: {e}"}
FromOutcome(o) == IF o.raised THEN Err(o.exc) ELSE o.payload

\* if isinstance(payload, dict) and payload.get("error"): payload = {"error": ...}
WrapSearch(payload) ==
    IF "error" \in DOMAIN payload THEN Err("Search failed: " \o payload.error)
    ELSE payload

ToolNames ==
    {"web_search", "open_url", "eval_expr", "execute", "read_file", "write_file",
     "terminal_open", "terminal_run", "terminal_terminate",
     "notes_write", "notes_list", "notes_read",
     "user_prefs_write", "user_prefs_list", "user_prefs_read"}

Yield(args, payload, g) == [kind |-> "yield", args |-> args, payload |-> payload, g |-> g]
Await(args, g) == [kind |-> "await", args |-> args, payload |-> NoPayload, g |-> g]
Abort(g) == [kind |-> "abort", args |-> NoFields, payload |-> NoPayload, g |-> g]

\* The if/elif chain on name, for collaborators that return without suspending
RouteLocal(name, args, g) ==
    CASE name = "eval_expr" -> eval_expr(Get(args, "expr", ""), g)
      [] name = "execute" -> execute(Get(args, "code", ""), g)
      [] name = "read_file" -> read_file(Get(args, "path", ""), g)
      [] name = "write_file" ->
             write_file(Get(args, "path", ""), Get(args, "contents", ""), g)
      [] name = "terminal_open" -> terminal_open(g)
      [] name = "terminal_run" -> terminal_run(Get(args, "cmd", ""), g)
      [] name = "terminal_terminate" -> terminal_terminate(g)
      [] name = "notes_write" ->
             notes_write(Get(args, "key", ""), Get(args, "content", ""), g)
      [] name = "notes_list" -> notes_list(g)
      [] name = "notes_read" -> notes_read(Get(args, "key", ""), g)
      [] name = "user_prefs_write" ->
             user_prefs_write(Get(args, "key", ""), Get(args, "content", ""), g)
      [] name = "user_prefs_list" -> user_prefs_list(g)
      [] name = "user_prefs_read" -> user_prefs_read(Get(args, "key", ""), g)
      [] OTHER -> { Returns(Err("Unknown tool " \o name), g) }

\* From call_id = tc.get("id") to the first suspension or to the yield.
DispatchStart(tc, g) ==
    IF Malformed(tc) THEN { Abort(g) }
    ELSE IF tc.form = "badstr"
    THEN { Yield(NoFields, Err("JSONDecodeError: unexpected character"), g) }
    ELSE LET args == tc.fields IN
         CASE tc.name = "web_search" ->
                  LET query == Get(args, "query", "")
                      k == Get(args, "k", 5)
                  IN  IF web_search_cached(query, k, g)
                      THEN { Yield(args, WrapSearch(FromOutcome(o)), o.g)
                             : o \in web_search_hit(query, k, g) }
                      ELSE { Await(args, g) }
           [] tc.name = "open_url" ->
                  IF "url" \notin DOMAIN args
                  THEN { Yield(args, Err("KeyError: 'url'"), g) }
                  ELSE IF open_url_cached(args["url"], Get(args, "max_chars", 6000), g)
                  THEN { Yield(args, FromOutcome(o), o.g)
                         : o \in open_url_hit(args["url"], Get(args, "max_chars", 6000), g) }
                  ELSE { Await(args, g) }
           [] OTHER ->
                  { Yield(args, FromOutcome(o), o.g) : o \in RouteLocal(tc.name, args, g) }

\* From the return of the awaited network call to the yield.
DispatchResume(tc, g) ==
    LET args == tc.fields IN
    IF tc.name = "web_search"
    THEN { Yield(args, WrapSearch(FromOutcome(o)), o.g)
           : o \in web_search_resume(Get(args, "query", ""), Get(args, "k", 5), g) }
    ELSE { Yield(args, FromOutcome(o), o.g)
           : o \in open_url_resume(args["url"], Get(args, "max_chars", 6000), g) }

\* orjson.dumps(payload).decode(): the JSON text and its number of characters
RECURSIVE KeysChars(_)
KeysChars(S) ==
    IF S = {} THEN 0
    ELSE LET k == CHOOSE x \in S : TRUE
         IN  Len(k) + 2 + (IF S = {k} THEN 0 ELSE 1) + KeysChars(S \ {k})

JsonChars(p) ==
    CASE "error" \in DOMAIN p -> 12 + Len(p.error)
      [] "ok" \in DOMAIN p -> 11
      [] "content" \in DOMAIN p -> 14 + Len(p.content)
      [] "result" \in DOMAIN p -> 13 + Len(p.result)
      [] "keys" \in DOMAIN p -> 11 + KeysChars(p.keys)
      [] "stdout" \in DOMAIN p -> 40 + Len(p.stdout) + Len(p.stderr)
      [] "results" \in DOMAIN p -> 1200
      [] "page" \in DOMAIN p -> 6100

Dumps(p) == [json |-> p, chars |-> JsonChars(p)]

\* A tool message that carries a reformatted id.
ToolMsgOwnId(call_id, payload) ==
    [role |-> "tool", tool_call_id |-> "call_" \o call_id,
     content |-> [json |-> payload, chars |-> JsonChars(payload)]]

AssistantMsg(tcs) == [role |-> "assistant", tool_calls |-> tcs]
ToolMsg(call_id, payload) ==
    [role |-> "tool", tool_call_id |-> call_id, content |-> Dumps(payload)]

----------------------------------------------------------------------------
(* The tool catalogue sent to the backend: each declared name with the     *)
(* arguments its schema requires.                                           *)

\* A catalogue that declares user_prefs_read under another name.
ToolRenamed(name, required) ==
    [name |-> IF name = "user_prefs_read" THEN "prefs_read" ELSE name,
     required |-> required]

Tool(name, required) == [name |-> name, required |-> required]

TOOLS ==
    << Tool("web_search", {"query"}),
       Tool("open_url", {"url"}),
       Tool("eval_expr", {"expr"}),
       Tool("execute", {"code"}),
       Tool("read_file", {"path"}),
       Tool("write_file", {"path", "contents"}),
       Tool("terminal_open", {}),
       Tool("terminal_run", {"cmd"}),
       Tool("terminal_terminate", {}),
       Tool("notes_write", {"key", "content"}),
       Tool("notes_list", {}),
       Tool("notes_read", {"key"}),
       Tool("user_prefs_write", {"key", "content"}),
       Tool("user_prefs_list", {}),
       Tool("user_prefs_read", {"key"}) >>

----------------------------------------------------------------------------
(* State.                                                                   *)

VARIABLES
    pc,             \* where event_gen stands
    settings,       \* payload["settings"]
    convo,          \* the conversation of the loop
    options,        \* options of the current iteration
    tool_calls,     \* the pending batch
    done_payload,   \* the Done event to emit, or NoPayload
    buffer,         \* bytes received and not yet split into lines
    data,           \* the last record orjson.loads returned
    tc,             \* index in tool_calls of the call being dispatched
    payload,        \* output of the call being dispatched
    events,         \* the events yielded to the client, in order
    requests,       \* the requests sent to the backend, in order
    NOTES, USER_PREFS, TERMINAL_OPEN, SEARCH_CACHE, URL_CACHE,
    wire,           \* upstream: the rest of the line it is sending
    linesSent,      \* upstream: lines sent or begun in this client stream
    turnBody,       \* history: the bytes received for the current request
    decoded,        \* history: the records decoded for the current request
    turnStart,      \* history: Len(events) when the current request was sent
    dataStart,      \* history: data when the current request was sent
    loops,          \* concurrent streams: the state of event_gen of each
    lists,          \* concurrent streams: the list objects, by identity
    log             \* history: the collaborator calls that returned, in order

loopVars == <<pc, settings, convo, options, tool_calls, done_payload, buffer, data,
              tc, payload, events, requests>>
toolVars == <<NOTES, USER_PREFS, TERMINAL_OPEN, SEARCH_CACHE, URL_CACHE>>
upVars == <<wire, linesSent>>
histVars == <<turnBody, decoded, turnStart, dataStart>>
concVars == <<loops, lists, log>>
vars == <<loopVars, toolVars, upVars, histVars, concVars>>

G == [NOTES |-> NOTES, USER_PREFS |-> USER_PREFS, TERMINAL_OPEN |-> TERMINAL_OPEN,
      SEARCH_CACHE |-> SEARCH_CACHE, URL_CACHE |-> URL_CACHE]

SetG(g) ==
    /\ NOTES' = g.NOTES
    /\ USER_PREFS' = g.USER_PREFS
    /\ TERMINAL_OPEN' = g.TERMINAL_OPEN
    /\ SEARCH_CACHE' = g.SEARCH_CACHE
    /\ URL_CACHE' = g.URL_CACHE

\* No concurrent streams.
NoLoops == loops = << >> /\ lists = << >> /\ log = << >>

\* messages = initial_msgs + messages, with the default developer prompt
InitialMessages ==
    << [role |-> "developer",
        content |-> [text |-> "DEFAULT_DEVELOPER_PROMPT", chars |-> DeveloperPromptChars]],
       [role |-> "user", content |-> [text |-> "question", chars |-> UserChars]] >>

Init ==
    /\ pc = "request"
    /\ settings \in SettingsSet
    /\ convo = InitialMessages
    /\ options = NoPayload
    /\ tool_calls = << >>
    /\ done_payload = NoPayload
    /\ buffer = << >>
    /\ data = Unbound
    /\ tc = 0
    /\ payload = NoPayload
    /\ events = << >>
    /\ requests = << >>
    /\ NOTES = EmptyDict
    /\ USER_PREFS = EmptyDict
    /\ TERMINAL_OPEN = FALSE
    /\ SEARCH_CACHE = EmptyDict
    /\ URL_CACHE = EmptyDict
    /\ wire = << >>
    /\ linesSent = 0
    /\ turnBody = << >>
    /\ decoded = << >>
    /\ turnStart = 0
    /\ dataStart = Unbound
    /\ NoLoops

----------------------------------------------------------------------------
(* Actions.                                                                 *)

\* A request that sends only the newest message.
ReqNewestOnly(msgs, opts) ==
    [messages |-> << msgs[Len(msgs)] >>, stream |-> TRUE, options |-> opts,
     tools |-> {TOOLS[n].name : n \in 1..Len(TOOLS)}]

Req(msgs, opts) ==
    [messages |-> msgs, stream |-> TRUE, options |-> opts,
     tools |-> {TOOLS[n].name : n \in 1..Len(TOOLS)}]

\* Top of "while True": build_options, the request, the reset of the locals.
Request ==
    /\ pc = "request"
    /\ LET o == build_options(settings, convo) IN
       \/ /\ o.raised
          /\ pc' = "aborted"
          /\ UNCHANGED <<options, tool_calls, done_payload, buffer, requests,
                         wire, histVars>>
       \/ /\ ~o.raised
          /\ options' = o.value
          /\ requests' = Append(requests, Req(convo, o.value))
          /\ tool_calls' = << >>
          /\ done_payload' = NoPayload
          /\ buffer' = << >>
          /\ pc' = "stream"
          /\ wire' = << >>
          /\ turnBody' = << >>
          /\ decoded' = << >>
          /\ turnStart' = Len(events)
          /\ dataStart' = data
    /\ UNCHANGED <<settings, convo, data, tc, payload, events, toolVars, linesSent>>
    /\ UNCHANGED concVars

\* A loop that answers a transport failure with the Error event and a retry.
TransportFailRetries ==
    /\ pc = "stream"
    /\ events' = Append(events, Error(BackendFailed, "ConnectError"))
    /\ pc' = "request"
    /\ UNCHANGED <<settings, convo, options, tool_calls, done_payload, buffer, data,
                   tc, payload, requests, toolVars, upVars, histVars>>
    /\ UNCHANGED concVars

\* except httpx.RequestError: opening the stream or reading the next chunk failed.
TransportFail ==
    /\ pc = "stream"
    /\ events' = Append(events, Error(BackendFailed, "ConnectError"))
    /\ pc' = "close"
    /\ UNCHANGED <<settings, convo, options, tool_calls, done_payload, buffer, data,
                   tc, payload, requests, toolVars, upVars, histVars>>
    /\ UNCHANGED concVars

RECURSIVE Flatten(_)
Flatten(ls) == IF ls = << >> THEN << >> ELSE Head(ls) \o <<"nl">> \o Flatten(Tail(ls))

\* The next chunk of aiter_bytes: the rest of the line the upstream is sending,
\* or that and j further lines, cut anywhere in the last of them.
RecvChunk ==
    /\ pc = "stream"
    /\ \/ UNCHANGED vars       \* if not chunk: continue
       \/ \E j \in 0..(MaxLines - linesSent) : \E ls \in [1..j -> LineSet] :
            LET full == wire \o Flatten(ls)
                last == IF j = 0 THEN wire ELSE ls[j] \o <<"nl">>
            IN  \E n \in 1..Len(last) :
                  LET chunk == SubSeq(full, 1, Len(full) - Len(last) + n) IN
                  /\ buffer' = buffer \o chunk
                  /\ turnBody' = turnBody \o chunk
                  /\ wire' = SubSeq(last, n + 1, Len(last))
                  /\ linesSent' = linesSent + j
                  /\ pc' = "lines"
                  /\ UNCHANGED <<settings, convo, options, tool_calls, done_payload,
                                 data, tc, payload, events, requests, toolVars,
                                 decoded, turnStart, dataStart>>
    /\ UNCHANGED concVars

\* One pass of "while b'\n' in buffer".
DecodeLine ==
    /\ pc = "lines"
    /\ HasNl(buffer)
    /\ LET r == LineStep(buffer, data) IN
       /\ buffer' = r.buffer
       /\ data' = r.data
       /\ events' = events \o r.out
       /\ tool_calls' = IF r.setTC THEN r.tool_calls ELSE tool_calls
       /\ decoded' = IF r.decoded THEN Append(decoded, r.data) ELSE decoded
       /\ pc' = IF r.brk THEN "donecheck" ELSE "lines"
    /\ UNCHANGED <<settings, convo, options, done_payload, tc, payload, requests,
                   toolVars, upVars, turnBody, turnStart, dataStart>>
    /\ UNCHANGED concVars

\* "if data.get('done')" after the inner loop; a raise is caught by
\* "except Exception".
DoneCheck ==
    /\ \/ pc = "donecheck"
       \/ pc = "lines" /\ ~HasNl(buffer)
    /\ LET d == DoneStep(data, options) IN
       /\ events' = IF d.raised
                    THEN Append(events, Error(Unexpected, "UnboundLocalError"))
                    ELSE events
       /\ done_payload' = IF d.done THEN d.payload ELSE done_payload
       /\ pc' = IF d.raised THEN "close" ELSE IF d.done THEN "turnend" ELSE "stream"
    /\ UNCHANGED <<settings, convo, options, tool_calls, buffer, data, tc, payload,
                   requests, toolVars, upVars, histVars>>
    /\ UNCHANGED concVars

\* aiter_bytes is exhausted.
EndOfBody ==
    /\ pc = "stream"
    /\ pc' = "turnend"
    /\ wire' = << >>
    /\ UNCHANGED <<settings, convo, options, tool_calls, done_payload, buffer, data,
                   tc, payload, events, requests, toolVars, linesSent, histVars>>
    /\ UNCHANGED concVars

\* After the try: the tool round begins, or Done is emitted and the loop ends.
TurnEnd ==
    /\ pc = "turnend"
    /\ \/ /\ tool_calls # << >>
          /\ convo' = Append(convo, AssistantMsg(tool_calls))
          /\ tc' = 1
          /\ pc' = "tools"
          /\ UNCHANGED events
       \/ /\ tool_calls = << >>
          /\ events' = IF done_payload # NoPayload THEN Append(events, done_payload)
                       ELSE events
          /\ pc' = "close"
          /\ UNCHANGED <<convo, tc>>
    /\ UNCHANGED <<settings, options, tool_calls, done_payload, buffer, data, payload,
                   requests, toolVars, upVars, histVars>>
    /\ UNCHANGED concVars

\* The outcome r of a dispatch reaches its yield.
YieldResult(r) ==
    /\ SetG(r.g)
    /\ payload' = r.payload
    /\ events' = Append(events, ToolResult(tool_calls[tc].id, tool_calls[tc].name,
                                           r.args, r.payload))
    /\ pc' = "append"

\* "for tc in tool_calls": one call, up to its suspension or its yield.
ToolInvoke ==
    /\ pc = "tools"
    /\ \E r \in DispatchStart(tool_calls[tc], G) :
         \/ /\ r.kind = "abort"
            /\ pc' = "aborted"
            /\ UNCHANGED <<payload, events, toolVars>>
         \/ /\ r.kind = "await"
            /\ pc' = "await"
            /\ UNCHANGED <<payload, events, toolVars>>
         \/ /\ r.kind = "yield"
            /\ YieldResult(r)
    /\ UNCHANGED <<settings, convo, options, tool_calls, done_payload, buffer, data,
                   tc, requests, upVars, histVars>>
    /\ UNCHANGED concVars

\* The awaited network call of web_search or open_url returns.
ToolResume ==
    /\ pc = "await"
    /\ \E r \in DispatchResume(tool_calls[tc], G) : YieldResult(r)
    /\ UNCHANGED <<settings, convo, options, tool_calls, done_payload, buffer, data,
                   tc, requests, upVars, histVars>>
    /\ UNCHANGED concVars

\* A round that puts each tool message in front of those of the earlier calls.
ToolAppendInFront ==
    /\ pc = "append"
    /\ convo' = SubSeq(convo, 1, Len(convo) - (tc - 1))
                    \o << [role |-> "tool", tool_call_id |-> tool_calls[tc].id,
                           content |-> [json |-> payload, chars |-> JsonChars(payload)]] >>
                    \o SubSeq(convo, Len(convo) - (tc - 1) + 1, Len(convo))
    /\ tc' = tc + 1
    /\ pc' = IF tc = Len(tool_calls) THEN "request" ELSE "tools"
    /\ UNCHANGED <<settings, options, tool_calls, done_payload, buffer, data, payload,
                   events, requests, toolVars, upVars, histVars>>
    /\ UNCHANGED concVars

\* After the yield: the tool message; after the last call, "continue".
ToolAppend ==
    /\ pc = "append"
    /\ convo' = Append(convo, ToolMsg(tool_calls[tc].id, payload))
    /\ tc' = tc + 1
    /\ pc' = IF tc = Len(tool_calls) THEN "request" ELSE "tools"
    /\ UNCHANGED <<settings, options, tool_calls, done_payload, buffer, data, payload,
                   events, requests, toolVars, upVars, histVars>>
    /\ UNCHANGED concVars

\* yield b"event: close\ndata: {}\n\n"
EmitClose ==
    /\ pc = "close"
    /\ events' = Append(events, Close)
    /\ pc' = "closed"
    /\ UNCHANGED <<settings, convo, options, tool_calls, done_payload, buffer, data,
                   tc, payload, requests, toolVars, upVars, histVars>>
    /\ UNCHANGED concVars

Next ==
    \/ Request
    \/ TransportFail
    \/ RecvChunk
    \/ DecodeLine
    \/ DoneCheck
    \/ EndOfBody
    \/ TurnEnd
    \/ ToolInvoke
    \/ ToolResume
    \/ ToolAppend
    \/ EmitClose

Spec == Init /\ [][Next]_vars

----------------------------------------------------------------------------
(* Vocabulary of the properties.                                            *)

EventIdx(t) == {n \in 1..Len(events) : events[n].type = t}

\* The events yielded since the current request was sent.
TurnIdx == (turnStart + 1)..Len(events)

IsBackendError(e) == e.type = "error" /\ e.prefix = BackendFailed
IsUnexpectedError(e) == e.type = "error" /\ e.prefix = Unexpected

StreamOver == pc \in {"closed", "aborted"}

NonEmptyBatches == {Batches[b] : b \in 1..Len(Batches)} \ {<< >>}

AllCalls == UNION {{B[n] : n \in 1..Len(B)} : B \in NonEmptyBatches}

CallById(id) == CHOOSE c \in AllCalls : c.id = id

HasError(output) == "error" \in DOMAIN output

LoopStopped == pc \in {"close", "closed"}
InToolRound == pc \in {"tools", "await", "append"}

----------------------------------------------------------------------------
\* C1: when a stream has emitted Close, exactly one Done or Error event was
\* emitted before it: never both and never neither.
C1_ExactlyOneDoneOrError ==
    pc = "closed" =>
        Cardinality(EventIdx("done")) + Cardinality(EventIdx("error")) = 1

\* C2: however the loop ends, the stream holds exactly one Close event and it
\* is the last event.
C2_CloseEndsEveryStream ==
    StreamOver =>
        /\ events # << >>
        /\ events[Len(events)].type = "close"
        /\ Cardinality(EventIdx("close")) = 1

AssistantIdx(B) ==
    {n \in 1..Len(convo) : convo[n].role = "assistant" /\ convo[n].tool_calls = B}

FollowedByResults(n, B) ==
    /\ n + Len(B) <= Len(convo)
    /\ \A k \in 1..Len(B) :
          /\ convo[n + k].role = "tool"
          /\ convo[n + k].tool_call_id = B[k].id

\* C3: once a tool round has ended, every non-empty batch forwarded in a
\* ToolCalls event has one assistant message carrying it in the conversation,
\* followed by one tool message per call with the call's id, and each of its
\* calls was dispatched once per forwarding.
C3_EveryBatchDispatched ==
    (pc = "request" /\ requests # << >>) =>
        \A B \in NonEmptyBatches :
            LET forwarded == {n \in EventIdx("tool_calls") : events[n].tool_calls = B}
            IN  /\ Cardinality(AssistantIdx(B)) = Cardinality(forwarded)
                /\ \A n \in AssistantIdx(B) : FollowedByResults(n, B)
                /\ \A k \in 1..Len(B) :
                      Cardinality({n \in EventIdx("tool_result") : events[n].id = B[k].id})
                          = Cardinality(forwarded)

Declared == {TOOLS[n].name : n \in 1..Len(TOOLS)}

RequiredOf(name) == (CHOOSE t \in {TOOLS[n] : n \in 1..Len(TOOLS)} : t.name = name).required

ToolLevelFailure(c) ==
    \/ c.form = "badstr"
    \/ c.name \notin Declared
    \/ c.name \in Declared /\ ~(RequiredOf(c.name) \subseteq DOMAIN c.fields)

\* C4: a call whose arguments do not parse, that lacks an argument its schema
\* requires, or that names no declared tool, gets a ToolResult whose output
\* has an error key, and the tool round goes on: no Error event is emitted
\* while the batch is dispatched.
C4_ToolFailuresReported ==
    /\ \A n \in EventIdx("tool_result") :
          ToolLevelFailure(CallById(events[n].id)) => HasError(events[n].output)
    /\ InToolRound => EventIdx("error") = {}

BackendErrIdx == {n \in EventIdx("error") : IsBackendError(events[n])}

C5_Fatal ==
    \A n \in BackendErrIdx :
        /\ EventIdx("error") = {n}
        /\ \/ n = Len(events) /\ pc = "close"
           \/ n = Len(events) - 1 /\ events[Len(events)].type = "close" /\ pc = "closed"

\* C5 (as amended): a transport failure gives exactly one Error event, with
\* the prefix "Backend request failed: "; nothing but Close follows it, the
\* loop stops without another request, and when the failure comes on the first
\* request before any byte of its response was received, Error is the first
\* event of the stream.
C5_TransportFailureIsFatal ==
    /\ C5_Fatal
    /\ \A n \in BackendErrIdx : (Len(requests) = 1 /\ turnBody = << >>) => n = 1

C5_Witness ==
    /\ pc = "closed"
    /\ BackendErrIdx = {1}
    /\ Len(requests) = 1
    /\ turnBody = << >>

\* C5 (as stated): the same, with Error the first event of the stream
\* whenever the failure comes on the first request.
C5_ErrorFirstOnFirstRequest ==
    /\ C5_Fatal
    /\ \A n \in BackendErrIdx : Len(requests) = 1 => n = 1

SkippableLine(line) == Strip(line) = << >> \/ ~Loads(Strip(line)).ok

RECURSIVE AllSkippable(_)
AllSkippable(body) ==
    IF body = << >> THEN TRUE
    ELSE /\ HasNl(body)
         /\ SkippableLine(SubSeq(body, 1, FirstNl(body) - 1))
         /\ AllSkippable(SubSeq(body, FirstNl(body) + 1, Len(body)))

\* C6: lines that are blank or do not parse produce no event and no Error:
\* while a response has delivered only such lines, the only events of the
\* turn are those of a transport failure and Close.
C6_SkippedLinesAreNotFatal ==
    (turnBody # << >> /\ AllSkippable(turnBody)) =>
        \A n \in TurnIdx : IsBackendError(events[n]) \/ events[n].type = "close"

\* The chunk loop on a response delivered as one chunk.
RECURSIVE InnerLoop(_)
InnerLoop(s) ==
    IF ~HasNl(s.buffer) THEN s
    ELSE LET r == LineStep(s.buffer, s.data)
             t == [buffer |-> r.buffer, data |-> r.data,
                   tool_calls |-> IF r.setTC THEN r.tool_calls ELSE s.tool_calls,
                   out |-> s.out \o r.out]
         IN  IF r.brk THEN t ELSE InnerLoop(t)

OneChunk(body, dat, opts) ==
    IF body = << >>
    THEN [out |-> << >>, tool_calls |-> << >>, done_payload |-> NoPayload, raised |-> FALSE]
    ELSE LET s == InnerLoop([buffer |-> body, data |-> dat, tool_calls |-> << >>,
                             out |-> << >>])
             d == DoneStep(s.data, opts)
         IN  [out |-> IF d.raised
                      THEN Append(s.out, Error(Unexpected, "UnboundLocalError"))
                      ELSE s.out,
              tool_calls |-> s.tool_calls,
              done_payload |-> d.payload,
              raised |-> d.raised]

\* The chunk loop of the turn has ended, not by a transport failure.
TurnFinished ==
    \/ pc = "turnend"
    \/ pc = "close" /\ TurnIdx # {} /\ IsUnexpectedError(events[Len(events)])

\* C7: when the chunk loop of a turn has ended, the events and the outcome of
\* the turn are those of the same lines (the bytes received and the rest of
\* the line being sent) delivered as one chunk.
C7_ChunkingIndependent ==
    TurnFinished =>
        [out |-> SubSeq(events, turnStart + 1, Len(events)),
         tool_calls |-> tool_calls,
         done_payload |-> done_payload,
         raised |-> pc = "close"] = OneChunk(turnBody \o wire, dataStart, options)

\* C8: within a turn no Delta event follows a ToolCalls event that carries a
\* non-empty batch.
C8_NoDeltaAfterToolCalls ==
    \A m, n \in TurnIdx :
        (m < n /\ events[m].type = "tool_calls" /\ events[m].tool_calls # << >>)
            => events[n].type # "delta"

IsDelta(e) == e.type = "delta"
CarriesContent(r) == r.hasContent

DeltaTexts ==
    LET sel == SelectSeq(SubSeq(events, turnStart + 1, Len(events)), IsDelta)
    IN  [n \in 1..Len(sel) |-> sel[n].delta]

ContentTexts ==
    LET sel == SelectSeq(decoded, CarriesContent)
    IN  [n \in 1..Len(sel) |-> sel[n].content]

C10_DoneOrToolRound ==
    /\ (LoopStopped /\ EventIdx("error") = {} /\ decoded # << >>
            /\ decoded[Len(decoded)].done /\ tool_calls = << >>) =>
          LET k == IF pc = "close" THEN Len(events) ELSE Len(events) - 1
          IN  /\ EventIdx("done") = {k}
              /\ events[k] = Done(requests[Len(requests)].options,
                                  Usage(decoded[Len(decoded)].metrics))
    /\ InToolRound => tool_calls # << >>
    /\ (InToolRound \/ pc = "request") => EventIdx("done") = {}
    /\ (LoopStopped /\ EventIdx("error") = {}) => tool_calls = << >>

C10_Witness ==
    /\ pc = "closed"
    /\ EventIdx("done") # {}
    /\ Len(requests) = 2
    /\ requests[1].options # requests[2].options

\* C11: the loop ends only through COMPLETE or FAILED: a stream that has
\* issued a request and is over has emitted Close, and it stopped after a failure (an Error event) or after
\* a turn that left no pending batch; while turns leave a non-empty batch and
\* the transport succeeds, the loop is not over.
C11_EndsOnlyWhenCompleteOrFailed ==
    (StreamOver /\ requests # << >>) =>
        /\ pc = "closed"
        /\ EventIdx("error") # {} \/ tool_calls = << >>

----------------------------------------------------------------------------
(* The tool round of one batch, for every call the model may send: the     *)
(* loop stands at "for tc in tool_calls" with a batch of one call, the     *)
(* stores and caches of tools.py empty or filled by earlier streams.       *)

FullFields ==
    [query |-> "q", url |-> "u", expr |-> "e", code |-> "c", path |-> "p",
     contents |-> "t", cmd |-> "ls", key |-> "k", content |-> "v"]

UndeclaredNames == {"bogus", "notes_delete"}

DispatchNames == {TOOLS[n].name : n \in 1..Len(TOOLS)} \cup ToolNames \cup UndeclaredNames

DispatchCalls ==
    { Call("c1", name, form, IF form = "badstr" THEN NoFields ELSE fields) :
        name \in DispatchNames, form \in {"obj", "str", "badstr"},
        fields \in {NoFields, FullFields} }

EmptyGlobals ==
    [NOTES |-> EmptyDict, USER_PREFS |-> EmptyDict, TERMINAL_OPEN |-> FALSE,
     SEARCH_CACHE |-> EmptyDict, URL_CACHE |-> EmptyDict]

FilledGlobals ==
    [NOTES |-> Put(EmptyDict, "k", "v"),
     USER_PREFS |-> Put(EmptyDict, "k", "v"),
     TERMINAL_OPEN |-> TRUE,
     SEARCH_CACHE |-> Put(EmptyDict, SearchKey("q", 5),
                          [results |-> "r1", source |-> "duckduckgo_html"]),
     URL_CACHE |-> Put(EmptyDict, UrlKey("u", 6000),
                       [page |-> [title |-> "t", url |-> "u", text |-> "text"]])]

DispatchInit ==
    \E call \in DispatchCalls, g \in {EmptyGlobals, FilledGlobals} :
        LET opts == build_options(DefaultSettings, InitialMessages).value
            rec == Record(FALSE, "", TRUE, << call >>, FALSE, NoMetrics)
        IN  /\ pc = "tools"
            /\ settings = DefaultSettings
            /\ convo = Append(InitialMessages, AssistantMsg(<< call >>))
            /\ options = opts
            /\ tool_calls = << call >>
            /\ done_payload = NoPayload
            /\ buffer = << >>
            /\ data = rec
            /\ tc = 1
            /\ payload = NoPayload
            /\ events = << ToolCalls(<< call >>) >>
            /\ requests = << Req(InitialMessages, opts) >>
            /\ NOTES = g.NOTES
            /\ USER_PREFS = g.USER_PREFS
            /\ TERMINAL_OPEN = g.TERMINAL_OPEN
            /\ SEARCH_CACHE = g.SEARCH_CACHE
            /\ URL_CACHE = g.URL_CACHE
            /\ wire = << >>
            /\ linesSent = 1
            /\ turnBody = << >>
            /\ decoded = << rec >>
            /\ turnStart = 0
            /\ dataStart = Unbound
            /\ NoLoops

DispatchNext ==
    \/ ToolInvoke
    \/ ToolResume
    \/ ToolAppend

DispatchSpec == DispatchInit /\ [][DispatchNext]_vars

\* The call of the round and the outputs of its ToolResult events.
TheCall == tool_calls[1]
ResultOutputs == {events[n].output : n \in EventIdx("tool_result")}
UnknownTool(name) == Err("Unknown tool " \o name)
GlobalsUntouched == G \in {EmptyGlobals, FilledGlobals}
RoundDone == pc = "request" /\ ResultOutputs # {}

\* C12 (as amended): for a call whose name is not declared, the output is
\* exactly {"error": "Unknown tool <name>"} when its arguments are an object
\* or a JSON string that parses, and the JSON parse error when they are a
\* string that does not parse; in both cases no collaborator is invoked: the
\* dispatch never suspends and the stores and caches stay as they were.
C12_UnknownToolAfterParse ==
    TheCall.name \notin Declared =>
        /\ pc # "await"
        /\ GlobalsUntouched
        /\ ResultOutputs \subseteq
              { IF TheCall.form = "badstr"
                THEN Err("JSONDecodeError: unexpected character")
                ELSE UnknownTool(TheCall.name) }

C12_Witness ==
    /\ RoundDone
    /\ TheCall.name = "notes_delete"
    /\ TheCall.form = "str"
    /\ ResultOutputs = { UnknownTool("notes_delete") }
    /\ G = FilledGlobals

\* C12 (as stated): for a call whose name is not declared, whatever its
\* arguments, the output is exactly {"error": "Unknown tool <name>"} and no
\* collaborator is invoked.
C12_UnknownToolWhateverArguments ==
    TheCall.name \notin Declared =>
        /\ pc # "await"
        /\ GlobalsUntouched
        /\ ResultOutputs \subseteq { UnknownTool(TheCall.name) }

----------------------------------------------------------------------------
IsPrefixOf(a, b) == Len(a) <= Len(b) /\ SubSeq(b, 1, Len(a)) = a

\* sfx is one assistant message with a non-empty batch and the tool messages
\* of its calls, in order.
IsRound(sfx) ==
    /\ sfx # << >>
    /\ sfx[1].role = "assistant"
    /\ sfx[1].tool_calls # << >>
    /\ Len(sfx) = Len(sfx[1].tool_calls) + 1
    /\ \A k \in 1..Len(sfx[1].tool_calls) :
          /\ sfx[k + 1].role = "tool"
          /\ sfx[k + 1].tool_call_id = sfx[1].tool_calls[k].id

\* From the sending of a request to the end of its turn.
InTurn == pc \in {"stream", "lines", "donecheck", "turnend"}

\* C13: the message list of every request is the conversation as it was when
\* the request was sent and stays a prefix of the conversation ever after (no
\* message is removed, reordered or modified); the list of request n is a
\* strict prefix of the list of request n+1, and the added suffix is one
\* assistant message followed by the tool messages of the round.
C13_AppendOnlyResentInFull ==
    /\ \A n \in 1..Len(requests) : IsPrefixOf(requests[n].messages, convo)
    /\ (InTurn /\ requests # << >>) => requests[Len(requests)].messages = convo
    /\ \A n \in 1..(Len(requests) - 1) :
          LET a == requests[n].messages
              b == requests[n + 1].messages
          IN  /\ IsPrefixOf(a, b)
              /\ Len(a) < Len(b)
              /\ IsRound(SubSeq(b, Len(a) + 1, Len(b)))

C13_Witness == Len(requests) = 3 /\ Len(convo) = 10

IdsOf(B) == {B[k].id : k \in 1..Len(B)}

\* C14: every tool message of the conversation is preceded by an assistant
\* message whose tool_calls holds a call with the id of the tool message, with
\* only tool messages of the same batch between the two.
C14_ToolMessageFollowsItsCall ==
    \A n \in 1..Len(convo) :
        convo[n].role = "tool" =>
            \E m \in 1..(n - 1) :
                /\ convo[m].role = "assistant"
                /\ convo[n].tool_call_id \in IdsOf(convo[m].tool_calls)
                /\ \A j \in (m + 1)..(n - 1) :
                      /\ convo[j].role = "tool"
                      /\ convo[j].tool_call_id \in IdsOf(convo[m].tool_calls)

C14_Witness ==
    /\ Len(requests) = 2
    /\ Len(convo) = 7
    /\ convo[7].role = "tool"
    /\ convo[7].tool_call_id = "c7"

IsToolResult(e) == e.type = "tool_result"

\* The ToolResult events of the round and the tool messages it has appended.
RoundResults == SelectSeq(SubSeq(events, turnStart + 1, Len(events)), IsToolResult)
RoundMessages(n) == SubSeq(convo, Len(convo) - n + 1, Len(convo))

\* C15: while the collaborator of call tc is about to be invoked or is in
\* flight, the ToolResult events of the round are those of calls 1..tc-1 in
\* order and the conversation ends with the batch's assistant message and
\* the tool messages of calls 1..tc-1 in order, each holding the output of
\* its ToolResult; the tool message of call tc is appended after the
\* ToolResult of call tc.  One loop has one position, so at most one
\* collaborator is in flight.
C15_DispatchIsSequential ==
    InToolRound =>
        LET emitted == IF pc = "append" THEN tc ELSE tc - 1
            appended == tc - 1
        IN  /\ Len(RoundResults) = emitted
            /\ \A k \in 1..emitted : RoundResults[k].id = tool_calls[k].id
            /\ Len(convo) > appended
            /\ convo[Len(convo) - appended] = AssistantMsg(tool_calls)
            /\ \A k \in 1..appended :
                  RoundMessages(appended)[k] =
                      ToolMsg(tool_calls[k].id, RoundResults[k].output)

C15_Witness ==
    /\ pc = "await"
    /\ tc = 4
    /\ Len(RoundResults) = 3

----------------------------------------------------------------------------
\* Nanoseconds to milliseconds as the usage is specified: null only when the
\* upstream omits the duration.
MsOf(ns) == IF ns = None THEN None ELSE ns \div 1000000

UsageOf(metrics) ==
    [prompt_eval_count |-> metrics.prompt_eval_count,
     eval_count |-> metrics.eval_count,
     total_duration_ms |-> MsOf(metrics.total_duration),
     eval_duration_ms |-> MsOf(metrics.eval_duration)]

\* C16: the usage of a Done event copies prompt_eval_count and eval_count of
\* the completing record's metrics and gives each duration divided by
\* 1,000,000 and truncated; each of the four fields is null exactly when the
\* record omits it.
C16_UsageFromMetrics ==
    \A n \in EventIdx("done") : events[n].usage = UsageOf(data.metrics)

----------------------------------------------------------------------------
(* The start of a client stream with given settings and messages: the      *)
(* state of event_gen before its first iteration.  sent is the number of   *)
(* lines of the bound MaxLines that the upstream will not send.            *)

StartOfStream(st, msgs, sent) ==
    /\ pc = "request"
    /\ settings = st
    /\ convo = msgs
    /\ options = NoPayload
    /\ tool_calls = << >>
    /\ done_payload = NoPayload
    /\ buffer = << >>
    /\ data = Unbound
    /\ tc = 0
    /\ payload = NoPayload
    /\ events = << >>
    /\ requests = << >>
    /\ NOTES = EmptyDict
    /\ USER_PREFS = EmptyDict
    /\ TERMINAL_OPEN = FALSE
    /\ SEARCH_CACHE = EmptyDict
    /\ URL_CACHE = EmptyDict
    /\ wire = << >>
    /\ linesSent = sent
    /\ turnBody = << >>
    /\ decoded = << >>
    /\ turnStart = 0
    /\ dataStart = Unbound
    /\ NoLoops

\* build_options on the first iteration, for settings and conversations of
\* every size.
OptMaxCtx == {1000, 3000, 6000, USER_MAX_CTX}
OptNumCtx == {1024, 2048, DEFAULT_NUM_CTX, 50000}
OptUserChars == {40, UserChars, 200000}

OptSettings ==
    [temperature : {"0.9", "hot"}, dynamic_ctx : BOOLEAN,
     max_ctx : OptMaxCtx, num_ctx : OptNumCtx]

OptConversations ==
    { << InitialMessages[1],
         [role |-> "user", content |-> [text |-> "question", chars |-> n]] >> :
      n \in OptUserChars }

OptInit == \E st \in OptSettings, msgs \in OptConversations : StartOfStream(st, msgs, 0)

OptNext == Request

OptSpec == OptInit /\ [][OptNext]_vars

\* The loop with the context window sized from the conversation and with a
\* static context window, the upstream sending up to MaxLines - 1 lines.
CtxSettings ==
    { DefaultSettings,
      [DefaultSettings EXCEPT !.dynamic_ctx = FALSE],
      [DefaultSettings EXCEPT !.temperature = "hot"] }

CtxInit == \E st \in CtxSettings : StartOfStream(st, InitialMessages, 1)

CtxSpec == CtxInit /\ [][Next]_vars

\* The call of clamp that build_options makes for settings st and messages msgs.
ClampCall(st, msgs) ==
    [v  |-> IF st.dynamic_ctx
            THEN (estimate_tokens(JoinedChars(msgs)) * 6) \div 5
            ELSE st.num_ctx,
     lo |-> IF st.dynamic_ctx THEN 4096 ELSE 2048,
     hi |-> st.max_ctx]

InRange(v, lo, hi) == lo <= v /\ v <= hi

ClampInts == {0, 1000, 2047, 2048, 4096, 5000, USER_MAX_CTX}

\* C17 (as amended): for all integers v, lo, hi with lo <= hi, clamp(v, lo, hi)
\* is in [lo, hi] and is v when v is in [lo, hi]; so is the num_ctx of a
\* request, for the call of clamp that build_options made.
C17_ClampWithinOrderedBounds ==
    /\ \A v, lo, hi \in ClampInts :
          lo <= hi =>
              /\ InRange(clamp(v, lo, hi), lo, hi)
              /\ InRange(v, lo, hi) => clamp(v, lo, hi) = v
    /\ \A n \in 1..Len(requests) :
          LET c == ClampCall(settings, requests[n].messages)
              r == requests[n].options.num_ctx
          IN  c.lo <= c.hi =>
                  /\ InRange(r, c.lo, c.hi)
                  /\ InRange(c.v, c.lo, c.hi) => r = c.v

C17_Witness ==
    /\ requests # << >>
    /\ settings.dynamic_ctx
    /\ settings.max_ctx = 6000
    /\ requests[1].options.num_ctx = 5638

\* C17 (as stated): for all integers v, lo, hi, whatever their order, the
\* value clamp returns is in [lo, hi] and is v when v is in [lo, hi].
C17_ClampWithinAnyBounds ==
    \A n \in 1..Len(requests) :
        LET c == ClampCall(settings, requests[n].messages)
            r == requests[n].options.num_ctx
        IN  /\ InRange(r, c.lo, c.hi)
            /\ InRange(c.v, c.lo, c.hi) => r = c.v

\* C18: the num_ctx of every request is at most the max_ctx of the settings,
\* with dynamic_ctx and without.
C18_MaxCtxIsCeiling ==
    \A n \in 1..Len(requests) : requests[n].options.num_ctx <= settings.max_ctx

\* C19: with dynamic_ctx false every request of the loop carries the same
\* num_ctx; with dynamic_ctx true the num_ctx of every request is the one
\* computed from the messages that request carries.
C19_StaticCtxIgnoresConversation ==
    /\ ~settings.dynamic_ctx =>
          \A m, n \in 1..Len(requests) :
              requests[m].options.num_ctx = requests[n].options.num_ctx
    /\ settings.dynamic_ctx =>
          \A n \in 1..Len(requests) :
              LET c == ClampCall(settings, requests[n].messages)
              IN  requests[n].options.num_ctx = Max(c.lo, Min(c.hi, c.v))

C19_Witness ==
    /\ ~settings.dynamic_ctx
    /\ Len(requests) = 3
    /\ Len(requests[3].messages) = 10

----------------------------------------------------------------------------
\* C20: a call with parsed arguments is routed to a collaborator (it is
\* awaited, or its output is not the "Unknown tool" answer) exactly when its
\* name is declared in the TOOLS catalogue sent with the requests.
C20_DeclaredIffDispatchable ==
    LET sent == requests[1].tools
    IN  /\ sent = Declared
        /\ pc = "await" => TheCall.name \in sent
        /\ TheCall.form # "badstr" =>
              \A out \in ResultOutputs :
                  (TheCall.name \in sent) <=> (out # UnknownTool(TheCall.name))

C20_Witness ==
    /\ RoundDone
    /\ TheCall.name = "user_prefs_read"
    /\ ResultOutputs = { [content |-> "v"] }

----------------------------------------------------------------------------
(* Concurrent client streams.  Every stream runs its own event_gen; the    *)
(* streams share the stores, the terminal flag and the caches of tools.py. *)
(* A stream gives way to the others where the code suspends: while it      *)
(* waits for the upstream, at every yield of an event, and inside          *)
(* web_search and open_url while the network call is awaited.  The         *)
(* response of the upstream to one request is taken as a whole: it ends    *)
(* with a batch of tool calls or with the completing record.               *)

\* Bound of the model: the number of tool rounds, over all streams.
MaxRounds == 2

Loops == {1, 2}

\* The list object that the payload of both client requests holds.
InputList == <<0, "payload">>

\* One list object per purpose, whatever the stream.
NewListInterned(i, what) == <<0, what>>

\* The identity of a list object created by stream i.
NewList(i, what) == <<i, what>>

LoopTag(i) == IF i = 1 THEN "a" ELSE "b"

\* The batches the model may send to stream i.
ConcBatches(i) ==
    { << Call(LoopTag(i) \o "1", "notes_read", "obj", [key |-> "k"]),
         Call(LoopTag(i) \o "2", "notes_write", "obj",
              [key |-> "k", content |-> "v" \o LoopTag(i)]),
         Call(LoopTag(i) \o "3", "notes_read", "obj", [key |-> "k"]) >>,
      << Call(LoopTag(i) \o "4", "user_prefs_read", "obj", [key |-> "k"]),
         Call(LoopTag(i) \o "5", "user_prefs_write", "obj",
              [key |-> "k", content |-> "v" \o LoopTag(i)]) >>,
      << Call(LoopTag(i) \o "6", "terminal_open", "obj", NoFields),
         Call(LoopTag(i) \o "7", "terminal_run", "obj", [cmd |-> "ls"]) >>,
      << Call(LoopTag(i) \o "8", "terminal_terminate", "obj", NoFields) >>,
      << Call(LoopTag(i) \o "9", "web_search", "obj", [query |-> "q"]) >> }

NewLoop ==
    [pc |-> "new", convo |-> InputList, options |-> NoPayload, tool_calls |-> << >>,
     tc |-> 0, payload |-> NoPayload, events |-> << >>, requests |-> << >>]

ConcInit ==
    /\ pc = "idle"
    /\ settings = DefaultSettings
    /\ convo = << >>
    /\ options = NoPayload
    /\ tool_calls = << >>
    /\ done_payload = NoPayload
    /\ buffer = << >>
    /\ data = Unbound
    /\ tc = 0
    /\ payload = NoPayload
    /\ events = << >>
    /\ requests = << >>
    /\ NOTES = EmptyDict
    /\ USER_PREFS = EmptyDict
    /\ TERMINAL_OPEN = FALSE
    /\ SEARCH_CACHE = EmptyDict
    /\ URL_CACHE = EmptyDict
    /\ wire = << >>
    /\ linesSent = 0
    /\ turnBody = << >>
    /\ decoded = << >>
    /\ turnStart = 0
    /\ dataStart = Unbound
    /\ loops = [i \in Loops |-> NewLoop]
    /\ lists = Put(EmptyDict, InputList, << InitialMessages[2] >>)
    /\ log = << >>

RoundsBegun ==
    LET n1 == Cardinality({n \in 1..Len(loops[1].events) :
                              loops[1].events[n].type = "tool_calls"})
        n2 == Cardinality({n \in 1..Len(loops[2].events) :
                              loops[2].events[n].type = "tool_calls"})
    IN  n1 + n2

\* chat_stream up to "while True": messages = initial_msgs + messages makes a
\* list, convo = list(messages) another.
LStart(i) ==
    /\ loops[i].pc = "new"
    /\ LET messages == << InitialMessages[1] >> \o lists[loops[i].convo]
       IN  /\ lists' = Put(Put(lists, NewList(i, "messages"), messages),
                           NewList(i, "convo"), messages)
           /\ loops' = [loops EXCEPT ![i].convo = NewList(i, "convo"),
                                     ![i].pc = "request"]
    /\ UNCHANGED <<loopVars, toolVars, upVars, histVars, log>>

\* Top of "while True": build_options and the request.
LRequest(i) ==
    /\ loops[i].pc = "request"
    /\ LET o == build_options(settings, lists[loops[i].convo])
       IN  loops' = [loops EXCEPT
                        ![i].options = o.value,
                        ![i].requests = Append(@, Req(lists[loops[i].convo], o.value)),
                        ![i].tool_calls = << >>,
                        ![i].pc = "stream"]
    /\ UNCHANGED <<loopVars, toolVars, upVars, histVars, lists, log>>

\* The response: a batch, forwarded and put in the conversation with the
\* assistant message, or the completing record and the Done event.
LTurn(i) ==
    /\ loops[i].pc = "stream"
    /\ \/ /\ RoundsBegun < MaxRounds
          /\ \E B \in ConcBatches(i) :
               /\ loops' = [loops EXCEPT
                               ![i].tool_calls = B,
                               ![i].events = Append(@, ToolCalls(B)),
                               ![i].tc = 1,
                               ![i].pc = "tools"]
               /\ lists' = [lists EXCEPT ![loops[i].convo] = Append(@, AssistantMsg(B))]
       \/ /\ loops' = [loops EXCEPT
                          ![i].events = Append(@, Done(loops[i].options, Usage(NoMetrics))),
                          ![i].pc = "close"]
          /\ UNCHANGED lists
    /\ UNCHANGED <<loopVars, toolVars, upVars, histVars, log>>

\* The outcome r of a dispatch of stream i reaches its yield.
LYield(i, r) ==
    LET call == loops[i].tool_calls[loops[i].tc] IN
    /\ SetG(r.g)
    /\ loops' = [loops EXCEPT
                    ![i].payload = r.payload,
                    ![i].events = Append(@, ToolResult(call.id, call.name, r.args,
                                                       r.payload)),
                    ![i].pc = "append"]
    /\ log' = Append(log, [loop |-> i, name |-> call.name, args |-> r.args,
                           output |-> r.payload])

\* One call of the batch, up to its suspension or its yield.
LInvoke(i) ==
    /\ loops[i].pc = "tools"
    /\ \E r \in DispatchStart(loops[i].tool_calls[loops[i].tc], G) :
         \/ /\ r.kind = "abort"
            /\ loops' = [loops EXCEPT ![i].pc = "aborted"]
            /\ UNCHANGED <<toolVars, log>>
         \/ /\ r.kind = "await"
            /\ loops' = [loops EXCEPT ![i].pc = "await"]
            /\ UNCHANGED <<toolVars, log>>
         \/ /\ r.kind = "yield"
            /\ LYield(i, r)
    /\ UNCHANGED <<loopVars, upVars, histVars, lists>>

\* The awaited network call of web_search or open_url returns.
LResume(i) ==
    /\ loops[i].pc = "await"
    /\ \E r \in DispatchResume(loops[i].tool_calls[loops[i].tc], G) : LYield(i, r)
    /\ UNCHANGED <<loopVars, upVars, histVars, lists>>

\* After the yield: the tool message; after the last call, "continue".
LAppend(i) ==
    /\ loops[i].pc = "append"
    /\ lists' = [lists EXCEPT ![loops[i].convo] =
                    Append(@, ToolMsg(loops[i].tool_calls[loops[i].tc].id,
                                      loops[i].payload))]
    /\ loops' = [loops EXCEPT
                    ![i].tc = @ + 1,
                    ![i].pc = IF loops[i].tc = Len(loops[i].tool_calls)
                              THEN "request" ELSE "tools"]
    /\ UNCHANGED <<loopVars, toolVars, upVars, histVars, log>>

\* yield b"event: close\ndata: {}\n\n"
LClose(i) ==
    /\ loops[i].pc = "close"
    /\ loops' = [loops EXCEPT ![i].events = Append(@, Close), ![i].pc = "closed"]
    /\ UNCHANGED <<loopVars, toolVars, upVars, histVars, lists, log>>

ConcNext ==
    \/ \E i \in Loops : LStart(i)
    \/ \E i \in Loops : LRequest(i)
    \/ \E i \in Loops : LTurn(i)
    \/ \E i \in Loops : LInvoke(i)
    \/ \E i \in Loops : LResume(i)
    \/ \E i \in Loops : LAppend(i)
    \/ \E i \in Loops : LClose(i)

ConcSpec == ConcInit /\ [][ConcNext]_vars

----------------------------------------------------------------------------
(* Claims about concurrent streams.                                         *)

Started(i) == loops[i].pc # "new"

\* The batches of each stream, and the ids of their calls.
BatchesOf == [i \in Loops |-> ConcBatches(i)]
ConcIds == [i \in Loops |-> UNION {IdsOf(B) : B \in ConcBatches(i)}]

\* m is a message that a tool round of stream i appends.
AppendedBy(i, m) ==
    \/ m.role = "assistant" /\ m.tool_calls \in BatchesOf[i]
    \/ m.role = "tool" /\ m.tool_call_id \in ConcIds[i]

HoldsMessageOf(j, msgs) == \E n \in 1..Len(msgs) : AppendedBy(j, msgs[n])

\* C21: two streams never share a conversation, also when their requests
\* hold the same input list: the conversations are distinct list objects,
\* distinct from the input list, which stays as the client sent it, and no
\* message appended by a round of one stream is in the conversation of the
\* other or in a request the other sent.
C21_ConversationsNotShared ==
    \A i \in Loops : \A j \in Loops \ {i} :
        Started(i) =>
            /\ loops[i].convo # InputList
            /\ Started(j) => loops[i].convo # loops[j].convo
            /\ lists[InputList] = << InitialMessages[2] >>
            /\ ~HoldsMessageOf(j, lists[loops[i].convo])
            /\ \A n \in 1..Len(loops[i].requests) :
                  ~HoldsMessageOf(j, loops[i].requests[n].messages)

\* Both streams, started from the same input list, ran a tool round each and
\* sent their second request.
C21_Witness ==
    /\ Len(loops[1].requests) = 2
    /\ Len(loops[2].requests) = 2
    /\ HoldsMessageOf(1, loops[1].requests[2].messages)
    /\ HoldsMessageOf(2, loops[2].requests[2].messages)

\* The completed calls of the collaborator "name" on key k, among the first
\* n - 1 completed calls.
CallsBefore(n, name, k) ==
    {m \in 1..(n - 1) : log[m].name = name /\ log[m].args.key = k}

Latest(S) == CHOOSE m \in S : \A x \in S : x <= m

\* The store holds, and every completed read returned, the content of the
\* latest completed write to the key; "not found" without such a write.
LastWriterWins(write, read, store) ==
    /\ \A n \in 1..Len(log) :
          log[n].name = read =>
              LET W == CallsBefore(n, write, log[n].args.key)
              IN  IF W = {} THEN log[n].output = Err("not found")
                  ELSE log[n].output = [content |-> log[Latest(W)].args.content]
    /\ \A k \in {"k"} :
          LET W == CallsBefore(Len(log) + 1, write, k)
          IN  IF W = {} THEN k \notin DOMAIN store
              ELSE k \in DOMAIN store /\ store[k] = log[Latest(W)].args.content

\* C22: under every interleaving of the tool rounds of two streams, a read of
\* the note store or of the preference store returns the content of the most
\* recently completed write to its key by any stream, "not found" only when no
\* write to the key has completed, and a written key stays in its store.
C22_LastWriterWins ==
    /\ LastWriterWins("notes_write", "notes_read", NOTES)
    /\ LastWriterWins("user_prefs_write", "user_prefs_read", USER_PREFS)

\* Stream 1 read "not found", wrote its content, then read the content that
\* stream 2 wrote in between.
C22_Witness ==
    \E n1, n2, n3, n4 \in 1..Len(log) :
        /\ n1 < n2 /\ n2 < n3 /\ n3 < n4
        /\ log[n1].loop = 1 /\ log[n1].name = "notes_read"
        /\ log[n1].output = Err("not found")
        /\ log[n2].loop = 1 /\ log[n2].name = "notes_write"
        /\ log[n3].loop = 2 /\ log[n3].name = "notes_write"
        /\ log[n4].loop = 1 /\ log[n4].name = "notes_read"
        /\ log[n4].output = [content |-> "vb"]

----------------------------------------------------------------------------
(* The done check and the record it reads.                                  *)

DeliveredDone == \E k \in 1..Len(decoded) : decoded[k].done

\* C23: a completion is taken, and a Done event emitted, only when a record
\* with done = true was decoded from the response to the most recent request;
\* the done check never acts on a record decoded for an earlier request.
C23_DoneFromCurrentResponse ==
    (done_payload # NoPayload \/ EventIdx("done") # {}) => DeliveredDone

----------------------------------------------------------------------------
(* The terminal flag under two streams.                                     *)

\* The completed terminal_open and terminal_terminate calls among the first
\* n - 1 completed calls.
FlagCallsBefore(n) ==
    {m \in 1..(n - 1) : log[m].name \in {"terminal_open", "terminal_terminate"}}

OpenBefore(n) ==
    /\ FlagCallsBefore(n) # {}
    /\ log[Latest(FlagCallsBefore(n))].name = "terminal_open"

Rejected(n) == log[n].output = Err("terminal not open")

\* C24: terminal_run runs its command iff the most recent completed
\* terminal_open or terminal_terminate of any stream is a terminal_open, and
\* returns "terminal not open" otherwise; the flag is that of the latest such
\* call; a terminal_run that follows the terminal_open of its own batch with
\* no terminal_terminate of another stream between the two is not rejected.
C24_RunIffFlagOpen ==
    /\ TERMINAL_OPEN = OpenBefore(Len(log) + 1)
    /\ \A n \in 1..Len(log) :
          log[n].name = "terminal_run" =>
              /\ Rejected(n) <=> ~OpenBefore(n)
              /\ ~Rejected(n) => log[n].output \in {ProcResult, Err("TimeoutExpired")}
              /\ \A m \in 1..(n - 1) :
                    ( /\ log[m].name = "terminal_open"
                      /\ log[m].loop = log[n].loop
                      /\ \A j \in (m + 1)..(n - 1) :
                            log[j].name # "terminal_terminate" )
                    => ~Rejected(n)

\* Stream 1 opened the terminal, stream 2 terminated it before the
\* terminal_run of the same batch of stream 1, which was rejected.
C24_Witness ==
    \E n \in 1..Len(log) :
        /\ n >= 3
        /\ log[n].name = "terminal_run" /\ log[n].loop = 1 /\ Rejected(n)
        /\ log[n - 1].name = "terminal_terminate" /\ log[n - 1].loop = 2
        /\ log[n - 2].name = "terminal_open" /\ log[n - 2].loop = 1

----------------------------------------------------------------------------
(* The search cache under two streams.                                      *)

IsSearch(n) == log[n].name = "web_search"

KeyOfSearch(n) == SearchKey(Get(log[n].args, "query", ""), Get(log[n].args, "k", 5))

Succeeded(n) == "error" \notin DOMAIN log[n].output

\* C25: the search cache holds only payloads that a web_search returned as a
\* success, and once a web_search for a key returned a success, every
\* web_search for that key that returns later returns the same payload.
C25_SearchCacheStable ==
    /\ \A key \in DOMAIN SEARCH_CACHE :
          \E n \in 1..Len(log) :
              /\ IsSearch(n) /\ KeyOfSearch(n) = key /\ Succeeded(n)
              /\ log[n].output = SEARCH_CACHE[key]
    /\ \A n \in 1..Len(log) : \A m \in 1..(n - 1) :
          ( /\ IsSearch(m) /\ IsSearch(n)
            /\ KeyOfSearch(m) = KeyOfSearch(n)
            /\ Succeeded(m) )
          => log[n].output = log[m].output

====
